---- MODULE Spec2Model ----
(***************************************************************************)
(* Model of the AT scheduler (piplexa/at): the scheduled_tasks table, the  *)
(* admission service (at-api), the polling worker and the cleaner           *)
(* (at-worker).  One model step is one SQL statement or one commit, the    *)
(* granularity at which PostgreSQL (READ COMMITTED) interleaves the        *)
(* processes.  Time is a discrete clock; one unit stands for five minutes, *)
(* the default of both the stuck timeout and the execution deadline.       *)
(***************************************************************************)
EXTENDS Integers, Sequences, FiniteSets, TLC

\* ------------------------------------------------------------------ bounds
\* The clock stops at MaxTime; the table holds at most MaxTasks rows.
MaxTime == 2

MaxTasks == 2

\* ------------------------------------------------------- program constants
\* The worker processes of the deployment; each runs one Worker and one Cleaner.
Workers == {"w1", "w2"}

\* Worker.batchSize (WORKER_BATCH_SIZE) of each process: LIMIT $1 of the lease query.
batchSize == [w \in Workers |-> IF w = "w1" THEN 2 ELSE 1]

\* WORKER_STUCK_TIMEOUT, default "5" minutes: one clock unit.
StuckTimeout == 1

\* context.WithTimeout(ctx, 5*time.Minute) around Execute: one clock unit.
ExecTimeout == 1

\* max_attempts given to a request that carries 0 or none.
DefaultMaxAttempts == 3

\* CHECK (status IN (...)) of the table.
Statuses == {"pending", "processing", "completed", "failed", "cancelled"}

Terminal == {"completed", "failed", "cancelled"}

\* sql.NullTime: the zero value is SQL NULL.
NullTime == [Valid |-> FALSE, Time |-> 0]

TimeOf(t) == [Valid |-> TRUE, Time |-> t]

\* sql.NullString NULL (error_message of a fresh row).
NullString == "NULL"

\* Task types a request may carry: one with an executor that can succeed,
\* and one that no case of Executor.Execute handles.
TaskTypes == {"http_callback", "sms"}

VARIABLES
    now,          \* the store's clock (NOW())
    tasks,        \* scheduled_tasks: a sequence of rows, row i has id i
    alive,        \* alive[w]: the worker process w is running
    txRows,       \* txRows[w]: ids locked (FOR UPDATE) by w's open lease transaction
    txStart,      \* txStart[w]: NOW() of w's open lease transaction (its start time)
    running,      \* running[w]: ids whose Execute goroutine has not returned yet
    execStart,    \* execStart[w]: the instant executeTasks dispatched the batch
    resultsChan,  \* resultsChan[w]: TaskResults sent and not yet handled
    checked,      \* checked[w]: <<attempts, maxAttempts>> scanned by handleTaskResult, or <<>>
    cpc,          \* cpc[w]: w's cleaner: about to run "query", about to run
                  \*   "failQuery", or "swept" (both ran, waiting for the ticker)
    sweepStart,   \* sweepStart[w]: history, the rows expired when w's current sweep began
    leases,       \* leases[id]: history, the number of committed leases of the row
    claimed,      \* claimed[id]: history, the attempts the last committed lease of
                  \*   the row left in it (0: never leased)
    restored,     \* restored[id]: history, the number of times a sweep returned
                  \*   the row from processing to pending
    skipped       \* skipped[w]: history, the rows w's last poll had selected when a
                  \*   store error ended it ({}: none); kept by the deployment
                  \*   that observes failing polls

\* The HTTP side of at-api, observed by the specifications of the API.
VARIABLES
    request,      \* the request of the last answered API call: <<operation, arguments>>
    response,     \* the response written to it (respondWithJSON / respondWithError)
    listing,      \* ListTasks between its two statements: <<[params, total]>>, or <<>>
    cancelHist    \* cancelHist[id]: history, <<status, attempts>> the row had when a
                  \*   cancel first succeeded on it, or <<>>

apiVars == <<request, response, listing, cancelHist>>

vars == <<now, tasks, alive, txRows, txStart, running, execStart, resultsChan,
          checked, cpc, sweepStart, leases, claimed, restored, skipped,
          request, response, listing, cancelHist>>

workerVars == <<alive, txRows, txStart, running, execStart, resultsChan, checked,
                skipped>>

Ids == 1..Len(tasks)

\* ------------------------------------------------------------------ store
\* BEFORE UPDATE trigger: every UPDATE of a row stamps updated_at with NOW(),
\* which is the start time `at` of the writing transaction.
Touch(row, at) == [row EXCEPT !.updated_at = at]

\* A row is locked while an open lease transaction has selected it FOR UPDATE.
Locked(id) == \E w \in Workers : id \in txRows[w]

\* Mutant: the lease query without SKIP LOCKED's exclusion of locked rows.
DueIgnoringLocks(id, at) ==
    /\ tasks[id].status = "pending"
    /\ tasks[id].execute_at <= at

\* Mutant: the lease query without the execute_at <= NOW() condition.
DueAnyTime(id, at) ==
    /\ tasks[id].status = "pending"
    /\ ~Locked(id)

\* WHERE status = 'pending' AND execute_at <= NOW() ... FOR UPDATE SKIP LOCKED
Due(id, at) ==
    /\ tasks[id].status = "pending"
    /\ tasks[id].execute_at <= at
    /\ ~Locked(id)

\* Mutant: LIMIT n without the ORDER BY.
FirstInAnyOrder(cand, n) ==
    {S \in SUBSET cand :
        Cardinality(S) = IF Cardinality(cand) < n THEN Cardinality(cand) ELSE n}

\* ORDER BY execute_at ASC LIMIT n over the candidate rows: the sets of rows the
\* query may return (rows with equal execute_at come in either order).
FirstByExecuteAt(cand, n) ==
    {S \in SUBSET cand :
        /\ Cardinality(S) = IF Cardinality(cand) < n THEN Cardinality(cand) ELSE n
        /\ \A x \in S : \A y \in cand \ S : tasks[x].execute_at <= tasks[y].execute_at}

\* Mutant: the stuck timeout taken in the wrong unit (minutes counted as hours),
\* sixty times too long.
ExpiredWrongUnit(id) ==
    /\ tasks[id].status = "processing"
    /\ tasks[id].updated_at < now - 60 * StuckTimeout

\* Mutant: a lease counted as expired from the stuck timeout on (<= for <).
ExpiredAtTimeout(id) ==
    /\ tasks[id].status = "processing"
    /\ tasks[id].updated_at <= now - StuckTimeout

\* WHERE status = 'processing' AND updated_at < NOW() - INTERVAL '1 second' * $1
Expired(id) ==
    /\ tasks[id].status = "processing"
    /\ tasks[id].updated_at < now - StuckTimeout

\* ------------------------------------------------------------- admission
\* The request values the model draws from.  A request's execute_at lies
\* one unit before, at, or one unit after the current instant.
ExecuteAtInputs == {now - 1, now, now + 1} \cap (0..MaxTime)

\* max_attempts of a request: a negative value, absent (the zero value of the
\* int field), and positive values.
MaxAttemptsInputs == {-1, 0, 1, 2}

PayloadInputs == {"p1"}

\* Mutant: the requested value is stored as given, without the default.
MaxAttemptsAsGiven(requested) == requested

\* maxAttempts := req.MaxAttempts; if maxAttempts == 0 { maxAttempts = 3 }
MaxAttemptsOf(requested) == IF requested = 0 THEN DefaultMaxAttempts ELSE requested

\* req.ExecuteAt.Before(time.Now())
InvalidExecuteTime(execute_at) == execute_at < now

\* The row INSERT INTO scheduled_tasks (execute_at, task_type, payload, max_attempts)
\* stores, with the column defaults of the table.
NewRow(execute_at, task_type, payload, requested) ==
    [execute_at    |-> execute_at,
     task_type     |-> task_type,
     payload       |-> payload,
     status        |-> "pending",
     attempts      |-> 0,
     max_attempts  |-> MaxAttemptsOf(requested),
     error_message |-> NullString,
     created_at    |-> now,
     updated_at    |-> now,
     completed_at  |-> NullTime]

\* TaskService.CreateTask: a request that passes the check inserts one row.
\* (A rejected request returns ErrInvalidExecuteTime and writes nothing.)
CreateTask(execute_at, task_type, payload, requested) ==
    /\ Len(tasks) < MaxTasks
    /\ ~InvalidExecuteTime(execute_at)
    /\ tasks' = Append(tasks, NewRow(execute_at, task_type, payload, requested))
    /\ leases' = Append(leases, 0)
    /\ claimed' = Append(claimed, 0)
    /\ restored' = Append(restored, 0)
    /\ UNCHANGED <<now, workerVars, cpc, sweepStart>>

\* Mutant: a cancel that matches pending rows only.
CancellablePendingOnly(id) == id \in Ids /\ tasks[id].status = "pending"

\* The statement of CancelTask matches the row.
Cancellable(id) == id \in Ids /\ tasks[id].status \in {"pending", "processing"}

\* TaskService.CancelTask: UPDATE ... SET status = 'cancelled'
\* WHERE id = $1 AND status IN ('pending', 'processing').  The UPDATE waits for
\* a row lock held by an open lease transaction, so it runs when the row is free.
\* (No matching row: ErrTaskNotFound, nothing written.)
CancelTask(id) ==
    /\ Cancellable(id)
    /\ ~Locked(id)
    /\ tasks' = [tasks EXCEPT ![id] = Touch([@ EXCEPT !.status = "cancelled"], now)]
    /\ UNCHANGED <<now, workerVars, cpc, sweepStart, leases, claimed, restored>>

\* ---------------------------------------------------------------- worker
\* Mutant: a poll that starts only while results are waiting, so never.
IdleWithResults(w) == txRows[w] = {} /\ running[w] = {} /\ resultsChan[w] # <<>>

\* Mutant: a poll that starts on every tick, whatever the previous one is doing.
IdleOrBusy(w) == txRows[w] = {}

\* processBatch runs when the previous one has returned: no transaction open,
\* no goroutine running, every result handled.
Idle(w) == txRows[w] = {} /\ running[w] = {} /\ resultsChan[w] = <<>>

\* Worker.processBatch up to the SELECT: BEGIN, then the lease query locks up
\* to batchSize due rows.  NOW() inside the transaction is its start time.
\* (No row found: the function returns and the transaction rolls back.)
LeaseSelect(w) ==
    /\ alive[w]
    /\ Idle(w)
    /\ \E S \in FirstByExecuteAt({id \in Ids : Due(id, now)}, batchSize[w]) :
        /\ S # {}
        /\ txRows' = [txRows EXCEPT ![w] = S]
    /\ txStart' = [txStart EXCEPT ![w] = now]
    /\ skipped' = [skipped EXCEPT ![w] = {}]
    /\ UNCHANGED <<now, tasks, alive, running, execStart, resultsChan, checked,
                   cpc, sweepStart, leases, claimed, restored, apiVars>>

\* Mutant: a lease UPDATE that sets the status only.
LeaseRowStatusOnly(row, at) == Touch([row EXCEPT !.status = "processing"], at)

\* The UPDATE of the lease transaction applied to one row.
LeaseRow(row, at) ==
    Touch([row EXCEPT !.status = "processing", !.attempts = @ + 1], at)

\* UPDATE ... SET status = 'processing', attempts = attempts + 1 WHERE id IN (...)
\* and tx.Commit(): the rows change for everyone and the locks are released;
\* executeTasks then starts one goroutine per leased task.
LeaseCommit(w) ==
    /\ alive[w]
    /\ txRows[w] # {}
    /\ tasks' = [id \in Ids |->
                    IF id \in txRows[w] THEN LeaseRow(tasks[id], txStart[w])
                                        ELSE tasks[id]]
    /\ leases' = [id \in Ids |-> IF id \in txRows[w] THEN leases[id] + 1 ELSE leases[id]]
    /\ claimed' = [id \in Ids |-> IF id \in txRows[w] THEN tasks'[id].attempts
                                                     ELSE claimed[id]]
    /\ running' = [running EXCEPT ![w] = txRows[w]]
    /\ execStart' = [execStart EXCEPT ![w] = now]
    /\ txRows' = [txRows EXCEPT ![w] = {}]
    /\ txStart' = [txStart EXCEPT ![w] = 0]
    /\ UNCHANGED <<now, alive, resultsChan, checked, cpc, sweepStart, restored,
                   skipped, apiVars>>

\* Mutant: a poll that fails after its UPDATE has reached the table.
LeaseAbortAfterUpdate(w) ==
    /\ alive[w]
    /\ txRows[w] # {}
    /\ tasks' = [id \in Ids |->
                    IF id \in txRows[w] THEN LeaseRow(tasks[id], txStart[w])
                                        ELSE tasks[id]]
    /\ txRows' = [txRows EXCEPT ![w] = {}]
    /\ txStart' = [txStart EXCEPT ![w] = 0]
    /\ UNCHANGED <<now, alive, running, execStart, resultsChan,
                   checked, cpc, sweepStart, leases, claimed, restored, apiVars>>

\* A store error in the UPDATE or in the commit: processBatch returns and the
\* deferred tx.Rollback() releases the locks.
LeaseAbort(w) ==
    /\ alive[w]
    /\ txRows[w] # {}
    /\ txRows' = [txRows EXCEPT ![w] = {}]
    /\ txStart' = [txStart EXCEPT ![w] = 0]
    /\ UNCHANGED <<now, tasks, alive, running, execStart, resultsChan,
                   checked, cpc, sweepStart, leases, claimed, restored, apiVars>>

\* executeHTTPCallback: a 2xx answer succeeds with the response body, any other
\* status fails with a diagnostic.
executeHTTPCallback ==
    {<<TRUE, "OK">>, <<FALSE, "HTTP request failed with status: 500, body: down">>}

\* Executor.Execute: the outcomes <<Success, ErrorMessage>> it may report for
\* a task type: the switch on task.TaskType with its two stubs and its default.
Execute(task_type) ==
    CASE task_type = "http_callback" -> executeHTTPCallback
      [] task_type = "rabbitmq" -> {<<FALSE, "RabbitMQ execution not implemented">>}
      [] task_type = "email" -> {<<FALSE, "Email execution not implemented">>}
      [] OTHER -> {<<FALSE, "unknown task type: " \o task_type>>}

\* One goroutine of executeTasks returns from Execute and sends its result.
ExecuteReturn(w, id) ==
    /\ alive[w]
    /\ id \in running[w]
    /\ \E out \in Execute(tasks[id].task_type) :
        resultsChan' = [resultsChan EXCEPT ![w] =
            Append(@, [TaskID |-> id, Success |-> out[1], ErrorMessage |-> out[2]])]
    /\ running' = [running EXCEPT ![w] = @ \ {id}]
    /\ execStart' = [execStart EXCEPT ![w] = IF running[w] = {id} THEN 0 ELSE @]
    /\ UNCHANGED <<now, tasks, alive, txRows, txStart, checked,
                   cpc, sweepStart, leases, claimed, restored, skipped, apiVars>>

\* Mutant: a results loop that does not wait for the goroutines of the batch.
HandlingEarly(w) == alive[w] /\ resultsChan[w] # <<>>

\* wg.Wait() has returned: the results loop handles the head of the channel.
Handling(w) == alive[w] /\ running[w] = {} /\ resultsChan[w] # <<>>

\* Mutant: a success settlement that also clears the attempts.
SettleSuccessClearingAttempts(w) ==
    /\ Handling(w)
    /\ LET r == Head(resultsChan[w]) IN
        /\ r.Success
        /\ ~Locked(r.TaskID)
        /\ tasks' = [tasks EXCEPT ![r.TaskID] =
                Touch([@ EXCEPT !.status = "completed",
                                !.completed_at = TimeOf(now),
                                !.error_message = r.ErrorMessage,
                                !.attempts = 0], now)]
    /\ resultsChan' = [resultsChan EXCEPT ![w] = Tail(@)]
    /\ UNCHANGED <<now, alive, txRows, txStart, running, execStart, checked,
                   cpc, sweepStart, leases, claimed, restored, skipped, apiVars>>

\* handleTaskResult, result.Success: UPDATE ... SET status = 'completed',
\* completed_at = NOW(), error_message = $2 WHERE id = $1.
SettleSuccess(w) ==
    /\ Handling(w)
    /\ LET r == Head(resultsChan[w]) IN
        /\ r.Success
        /\ ~Locked(r.TaskID)
        /\ tasks' = [tasks EXCEPT ![r.TaskID] =
                Touch([@ EXCEPT !.status = "completed",
                                !.completed_at = TimeOf(now),
                                !.error_message = r.ErrorMessage], now)]
    /\ resultsChan' = [resultsChan EXCEPT ![w] = Tail(@)]
    /\ UNCHANGED <<now, alive, txRows, txStart, running, execStart, checked,
                   cpc, sweepStart, leases, claimed, restored, skipped, apiVars>>

\* handleTaskResult, failure: SELECT attempts, max_attempts FROM scheduled_tasks
\* WHERE id = $1, a statement of its own before the UPDATE.
CheckAttempts(w) ==
    /\ Handling(w)
    /\ checked[w] = <<>>
    /\ LET r == Head(resultsChan[w]) IN
        /\ ~r.Success
        /\ checked' = [checked EXCEPT ![w] =
                <<tasks[r.TaskID].attempts, tasks[r.TaskID].max_attempts>>]
    /\ UNCHANGED <<now, tasks, alive, txRows, txStart, running, execStart,
                   resultsChan, cpc, sweepStart, leases, claimed, restored, skipped, apiVars>>

\* Mutant: the budget test of handleTaskResult off by one (> for >=).
FailureRowOneMore(row, attempts, maxAttempts, message) ==
    IF attempts > maxAttempts
    THEN [row EXCEPT !.status = "failed",
                     !.error_message = message,
                     !.completed_at = TimeOf(now)]
    ELSE [row EXCEPT !.status = "pending", !.error_message = message]

\* Mutant: a retry that is put off by one unit of time.
FailureRowBackoff(row, attempts, maxAttempts, message) ==
    IF attempts >= maxAttempts
    THEN [row EXCEPT !.status = "failed",
                     !.error_message = message,
                     !.completed_at = TimeOf(now)]
    ELSE [row EXCEPT !.status = "pending",
                     !.error_message = message,
                     !.execute_at = now + 1]

\* Mutant: a failure settlement that never retries.
FailureRowNoRetry(row, attempts, maxAttempts, message) ==
    [row EXCEPT !.status = "failed",
                !.error_message = message,
                !.completed_at = TimeOf(now)]

\* Mutant: a failure settlement that closes a task out of budget as completed.
FailureRowCompleting(row, attempts, maxAttempts, message) ==
    IF attempts >= maxAttempts
    THEN [row EXCEPT !.status = "completed",
                     !.error_message = message,
                     !.completed_at = TimeOf(now)]
    ELSE [row EXCEPT !.status = "pending", !.error_message = message]

\* The row handleTaskResult writes after a failure, from the values it scanned:
\* attempts >= maxAttempts: failed with completed_at; otherwise back to pending.
FailureRow(row, attempts, maxAttempts, message) ==
    IF attempts >= maxAttempts
    THEN [row EXCEPT !.status = "failed",
                     !.error_message = message,
                     !.completed_at = TimeOf(now)]
    ELSE [row EXCEPT !.status = "pending", !.error_message = message]

\* handleTaskResult, failure: the UPDATE ... WHERE id = $1 that follows the check.
SettleFailure(w) ==
    /\ Handling(w)
    /\ checked[w] # <<>>
    /\ LET r == Head(resultsChan[w]) IN
        /\ ~Locked(r.TaskID)
        /\ tasks' = [tasks EXCEPT ![r.TaskID] =
                Touch(FailureRow(@, checked[w][1], checked[w][2], r.ErrorMessage), now)]
    /\ resultsChan' = [resultsChan EXCEPT ![w] = Tail(@)]
    /\ checked' = [checked EXCEPT ![w] = <<>>]
    /\ UNCHANGED <<now, alive, txRows, txStart, running, execStart,
                   cpc, sweepStart, leases, claimed, restored, skipped, apiVars>>

\* A store error in a statement of handleTaskResult: it logs and returns, the
\* result is dropped and the row keeps what it had.
SettleError(w) ==
    /\ Handling(w)
    /\ resultsChan' = [resultsChan EXCEPT ![w] = Tail(@)]
    /\ checked' = [checked EXCEPT ![w] = <<>>]
    /\ UNCHANGED <<now, tasks, alive, txRows, txStart, running, execStart,
                   cpc, sweepStart, leases, claimed, restored, skipped, apiVars>>

\* Mutant: a shutdown that hands the tasks still executing back to pending.
StopReleasingLeases(w) ==
    /\ alive[w]
    /\ alive' = [alive EXCEPT ![w] = FALSE]
    /\ tasks' = [id \in Ids |->
                    IF id \in running[w] THEN Touch([tasks[id] EXCEPT !.status = "pending"], now)
                                         ELSE tasks[id]]
    /\ txRows' = [txRows EXCEPT ![w] = {}]
    /\ running' = [running EXCEPT ![w] = {}]
    /\ resultsChan' = [resultsChan EXCEPT ![w] = <<>>]
    /\ checked' = [checked EXCEPT ![w] = <<>>]
    /\ cpc' = [cpc EXCEPT ![w] = "query"]
    /\ sweepStart' = [sweepStart EXCEPT ![w] = {}]
    /\ txStart' = [txStart EXCEPT ![w] = 0]
    /\ execStart' = [execStart EXCEPT ![w] = 0]
    /\ UNCHANGED <<now, leases, claimed, restored, skipped, apiVars>>

\* The process ends (signal, crash): main returns, every goroutine dies, the
\* open transaction is rolled back by the store, results are lost.
Stop(w) ==
    /\ alive[w]
    /\ alive' = [alive EXCEPT ![w] = FALSE]
    /\ txRows' = [txRows EXCEPT ![w] = {}]
    /\ running' = [running EXCEPT ![w] = {}]
    /\ resultsChan' = [resultsChan EXCEPT ![w] = <<>>]
    /\ checked' = [checked EXCEPT ![w] = <<>>]
    /\ cpc' = [cpc EXCEPT ![w] = "query"]
    /\ sweepStart' = [sweepStart EXCEPT ![w] = {}]
    /\ txStart' = [txStart EXCEPT ![w] = 0]
    /\ execStart' = [execStart EXCEPT ![w] = 0]
    /\ UNCHANGED <<now, tasks, leases, claimed, restored, skipped, apiVars>>

\* --------------------------------------------------------------- cleaner
\* Mutant: a sweep that returns the task to pending and counts no attempt.
RestoreRowKeepingAttempts(row) ==
    Touch([row EXCEPT !.status = "pending"], now)

\* Mutant: a sweep that gives the task a fresh budget.
RestoreRowFresh(row) ==
    Touch([row EXCEPT !.status = "pending", !.attempts = 0], now)

\* The first statement of cleanStuckTasks applied to one row:
\* SET status = 'pending', attempts = attempts + 1.
RestoreRow(row) ==
    Touch([row EXCEPT !.status = "pending", !.attempts = @ + 1], now)

\* Mutant: the first statement with an off-by-one budget test.
RestorableBelowLast(id) ==
    Expired(id) /\ tasks[id].attempts + 1 < tasks[id].max_attempts /\ ~Locked(id)

\* Rows the first statement matches: expired, attempts < max_attempts.
Restorable(id) == Expired(id) /\ tasks[id].attempts < tasks[id].max_attempts /\ ~Locked(id)

\* cleanStuckTasks, first statement (query).
CleanRestore(w) ==
    /\ alive[w]
    /\ cpc[w] \in {"query", "swept"}
    /\ tasks' = [id \in Ids |-> IF Restorable(id) THEN RestoreRow(tasks[id]) ELSE tasks[id]]
    /\ cpc' = [cpc EXCEPT ![w] = "failQuery"]
    /\ sweepStart' = [sweepStart EXCEPT ![w] = {id \in Ids : Expired(id)}]
    /\ restored' = [id \in Ids |-> IF Restorable(id) THEN restored[id] + 1
                                                      ELSE restored[id]]
    /\ UNCHANGED <<now, workerVars, leases, claimed, apiVars>>

\* The second statement applied to one row: SET status = 'failed',
\* error_message = 'Max attempts reached', completed_at = NOW().
FailRow(row) ==
    Touch([row EXCEPT !.status = "failed",
                      !.error_message = "Max attempts reached",
                      !.completed_at = TimeOf(now)], now)

\* Mutant: the second statement with > for >= in its budget test.
ExhaustedBeyond(id) == Expired(id) /\ tasks[id].attempts > tasks[id].max_attempts /\ ~Locked(id)

\* Rows the second statement matches: expired, attempts >= max_attempts.
Exhausted(id) == Expired(id) /\ tasks[id].attempts >= tasks[id].max_attempts /\ ~Locked(id)

\* cleanStuckTasks, second statement (failQuery); the sweep is over.
CleanFail(w) ==
    /\ alive[w]
    /\ cpc[w] = "failQuery"
    /\ tasks' = [id \in Ids |-> IF Exhausted(id) THEN FailRow(tasks[id]) ELSE tasks[id]]
    /\ cpc' = [cpc EXCEPT ![w] = "swept"]
    /\ sweepStart' = [sweepStart EXCEPT ![w] = {}]
    /\ UNCHANGED <<now, workerVars, leases, claimed, restored, apiVars>>

\* rows.Err() or the second QueryContext fails: cleanStuckTasks returns
\* without the second statement.
CleanError(w) ==
    /\ alive[w]
    /\ cpc[w] = "failQuery"
    /\ cpc' = [cpc EXCEPT ![w] = "query"]
    /\ sweepStart' = [sweepStart EXCEPT ![w] = {}]
    /\ UNCHANGED <<now, tasks, workerVars, leases, claimed, restored, apiVars>>

\* ----------------------------------------------------------------- clock
\* Time passes.  An Execute call ends by its deadline, ExecTimeout after the
\* batch was dispatched, so the clock does not pass it while one is running.
Tick ==
    /\ now < MaxTime
    /\ \A w \in Workers : running[w] # {} => now + 1 <= execStart[w] + ExecTimeout
    /\ now' = now + 1
    /\ UNCHANGED <<tasks, workerVars, cpc, sweepStart, leases, claimed, restored, apiVars>>

\* ------------------------------------------------------------- HTTP API
\* time.Time{}: the ExecuteAt of a request body without execute_at (IsZero()).
ZeroTime == -1

\* ListTasks: params.Limit = 50 when it is 0.
DefaultLimit == 50

\* ListTasks: params.Limit = 100 when it is above 100.
MaxLimit == 100

\* No call answered yet.
NoRequest == <<"none", <<>>>>

\* A response: the status code and the JSON body, which is an ErrorResponse
\* (error), a TaskResponse (task, a sequence of one row) or a TaskListResponse
\* (tasks, total).  Code 0: nothing written yet.
NoResponse == [code |-> 0, error |-> "", task |-> <<>>, tasks |-> <<>>, total |-> 0]

\* respondWithError(w, code, message)
respondWithError(code, message) == [NoResponse EXCEPT !.code = code, !.error = message]

\* respondWithJSON(w, code, models.TaskResponse{Task: task})
respondWithTask(code, task) == [NoResponse EXCEPT !.code = code, !.task = <<task>>]

\* respondWithJSON(w, http.StatusOK, models.TaskListResponse{Tasks: tasks, Total: total})
respondWithList(rows, total) == [NoResponse EXCEPT !.code = 200, !.tasks = rows, !.total = total]

\* RETURNING id, execute_at, ...: row id of table t as the service scans it.
Returning(t, id) == [id |-> id] @@ t[id]

\* The bodies POST /api/v1/tasks receives: every field present or missing.
CreateRequests ==
    [execute_at   : ExecuteAtInputs \cup {ZeroTime},
     task_type    : TaskTypes \cup {""},
     payload      : PayloadInputs \cup {""},
     max_attempts : MaxAttemptsInputs]

\* Mutant: a handler that does not look at the payload.
ValidationErrorNoPayload(req) ==
    CASE req.execute_at = ZeroTime -> "execute_at is required"
      [] req.task_type = "" -> "task_type is required"
      [] InvalidExecuteTime(req.execute_at) -> "execute_at must be in the future"
      [] OTHER -> ""

\* CreateTaskHandler's checks of the required fields, in their order, and the
\* service's ErrInvalidExecuteTime: the message of the 400 response, "" if none.
ValidationError(req) ==
    CASE req.execute_at = ZeroTime -> "execute_at is required"
      [] req.task_type = "" -> "task_type is required"
      [] req.payload = "" -> "payload is required"
      [] InvalidExecuteTime(req.execute_at) -> "execute_at must be in the future"
      [] OTHER -> ""

\* CreateTaskHandler: POST /api/v1/tasks.  400 with the message of the failed
\* check, or 201 Created with the row CreateTask inserted.
CreateTaskHandler(req) ==
    /\ request' = <<"create", req>>
    /\ IF ValidationError(req) # ""
       THEN /\ response' = respondWithError(400, ValidationError(req))
            /\ UNCHANGED <<now, tasks, workerVars, cpc, sweepStart, leases, claimed, restored,
                           listing, cancelHist>>
       ELSE /\ CreateTask(req.execute_at, req.task_type, req.payload, req.max_attempts)
            /\ response' = respondWithTask(201, Returning(tasks', Len(tasks')))
            /\ UNCHANGED <<listing, cancelHist>>

\* The ids DELETE /api/v1/tasks/{id} is called with: rows of the table and
\* ids no row has.
CancelIds == 0..(MaxTasks + 1)

\* CancelTaskHandler: DELETE /api/v1/tasks/{id}.  200 with the cancelled row
\* when the statement of CancelTask matched one, 404 on ErrTaskNotFound.
CancelTaskHandler(id) ==
    /\ request' = <<"cancel", id>>
    /\ UNCHANGED listing
    /\ IF Cancellable(id)
       THEN /\ CancelTask(id)
            /\ response' = respondWithTask(200, Returning(tasks', id))
            /\ cancelHist' = [cancelHist EXCEPT ![id] =
                    IF @ = <<>> THEN <<tasks[id].status, tasks[id].attempts>> ELSE @]
       ELSE /\ response' = respondWithError(404, "Task not found or cannot be cancelled")
            /\ UNCHANGED <<now, tasks, workerVars, cpc, sweepStart, leases, claimed, restored, cancelHist>>

\* The query parameters GET /api/v1/tasks is called with.
ListParams ==
    [status    : {"", "pending", "cancelled"},
     task_type : {"", "sms"},
     limit     : {-1, 0, 1, MaxLimit + 1},
     offset    : {-1, 0, 1}]

\* ListTasks: the defaults of the pagination.
NormalLimit(limit) ==
    IF limit = 0 THEN DefaultLimit ELSE IF limit > MaxLimit THEN MaxLimit ELSE limit

\* Mutant: both queries filter on status only.
MatchesStatusOnly(id, params) ==
    params.status # "" => tasks[id].status = params.status

\* WHERE 1=1 [AND status = $n] [AND task_type = $n] of both queries of ListTasks.
Matches(id, params) ==
    /\ params.status # "" => tasks[id].status = params.status
    /\ params.task_type # "" => tasks[id].task_type = params.task_type

\* ORDER BY created_at DESC over the rows in M: the orders the query may
\* return them in (rows with equal created_at come in either order).
ByCreatedAtDesc(M) ==
    {o \in [1..Cardinality(M) -> M] :
        /\ \A i, j \in 1..Cardinality(M) : i # j => o[i] # o[j]
        /\ \A i, j \in 1..Cardinality(M) :
              i < j => tasks[o[i]].created_at >= tasks[o[j]].created_at}

\* LIMIT limit OFFSET offset of a sequence.
LimitOffset(o, limit, offset) ==
    SubSeq(o, offset + 1, IF offset + limit < Len(o) THEN offset + limit ELSE Len(o))

\* ListTasksHandler up to the first statement of ListTasks: a negative limit or
\* offset is answered 400; otherwise the count query runs with the filters.
ListCount(params) ==
    /\ listing = <<>>
    /\ request' = <<"list", params>>
    /\ IF params.limit < 0
       THEN /\ response' = respondWithError(400, "Invalid limit parameter")
            /\ UNCHANGED listing
       ELSE IF params.offset < 0
       THEN /\ response' = respondWithError(400, "Invalid offset parameter")
            /\ UNCHANGED listing
       ELSE /\ response' = NoResponse
            /\ listing' = <<[params |-> [params EXCEPT !.limit = NormalLimit(@)],
                             total  |-> Cardinality({id \in Ids : Matches(id, params)})]>>
    /\ UNCHANGED <<now, tasks, workerVars, cpc, sweepStart, leases, claimed, restored, cancelHist>>

\* The second statement of ListTasks, a statement of its own: the rows, read
\* from the table as it is now; then the 200 response with rows and total.
ListSelect ==
    /\ listing # <<>>
    /\ LET p == listing[1].params IN
        /\ request' = <<"list", p>>
        /\ \E o \in ByCreatedAtDesc({id \in Ids : Matches(id, p)}) :
              response' = respondWithList(
                  [i \in 1..Len(LimitOffset(o, p.limit, p.offset)) |->
                      Returning(tasks, LimitOffset(o, p.limit, p.offset)[i])],
                  listing[1].total)
    /\ listing' = <<>>
    /\ UNCHANGED <<now, tasks, workerVars, cpc, sweepStart, leases, claimed, restored, cancelHist>>

\* ------------------------------------------------------------------ spec
\* No API call observed yet.
InitApi ==
    /\ request = NoRequest
    /\ response = NoResponse
    /\ listing = <<>>
    /\ cancelHist = [id \in 1..MaxTasks |-> <<>>]

InitWorkers ==
    /\ now = 0
    /\ alive = [w \in Workers |-> TRUE]
    /\ txRows = [w \in Workers |-> {}]
    /\ txStart = [w \in Workers |-> 0]
    /\ running = [w \in Workers |-> {}]
    /\ execStart = [w \in Workers |-> 0]
    /\ resultsChan = [w \in Workers |-> <<>>]
    /\ checked = [w \in Workers |-> <<>>]
    /\ cpc = [w \in Workers |-> "query"]
    /\ sweepStart = [w \in Workers |-> {}]
    /\ skipped = [w \in Workers |-> {}]

\* The requests admitted at instant 0 that fill the table of the worker
\* specifications: odd ids are due at once with two attempts, even ids are due
\* one unit later with a single attempt.
InitialRow(id) ==
    IF id % 2 = 1 THEN NewRow(0, "http_callback", "p1", 2)
                  ELSE NewRow(1, "http_callback", "p1", 1)

Init ==
    /\ InitWorkers
    /\ InitApi
    /\ tasks = [id \in 1..MaxTasks |-> InitialRow(id)]
    /\ leases = [id \in 1..MaxTasks |-> 0]
    /\ claimed = [id \in 1..MaxTasks |-> 0]
    /\ restored = [id \in 1..MaxTasks |-> 0]

Next ==
    \/ Tick
    \/ \E id \in Ids : CancelTask(id) /\ UNCHANGED apiVars
    \/ \E w \in Workers :
        \/ LeaseSelect(w)
        \/ LeaseCommit(w)
        \/ LeaseAbort(w) /\ UNCHANGED skipped
        \/ \E id \in Ids : ExecuteReturn(w, id)
        \/ SettleSuccess(w)
        \/ CheckAttempts(w)
        \/ SettleFailure(w)
        \/ SettleError(w)
        \/ Stop(w)
        \/ CleanRestore(w)
        \/ CleanFail(w)
        \/ CleanError(w)

Spec == Init /\ [][Next]_vars

\* ------------------------------------------------------ API deployments
\* at-api in front of an empty table.
InitEmpty ==
    /\ InitWorkers
    /\ InitApi
    /\ tasks = <<>>
    /\ leases = <<>>
    /\ claimed = <<>>
    /\ restored = <<>>

\* Admission: POST /api/v1/tasks calls with every kind of body, as time passes.
NextCreate ==
    \/ Tick
    \/ \E req \in CreateRequests : CreateTaskHandler(req)

SpecCreate == InitEmpty /\ [][NextCreate]_vars

\* Listing: GET /api/v1/tasks calls of one client, while other clients create
\* tasks of either type and cancel them (their responses are not observed).
NextList ==
    \/ Tick
    \/ \E task_type \in TaskTypes :
          CreateTask(now, task_type, "p1", 0) /\ UNCHANGED apiVars
    \/ \E id \in Ids : CancelTask(id) /\ UNCHANGED apiVars
    \/ \E params \in ListParams : ListCount(params)
    \/ ListSelect

SpecList == InitEmpty /\ [][NextList]_vars

\* The process whose steps interleave with the cancel calls.
Solo == {"w1"}

\* Cancelling: DELETE /api/v1/tasks/{id} calls for present and absent ids,
\* interleaved with every step of a worker process and its cleaner.
NextCancel ==
    \/ Tick
    \/ \E id \in CancelIds : CancelTaskHandler(id)
    \/ \E w \in Solo :
        \/ LeaseSelect(w)
        \/ LeaseCommit(w)
        \/ LeaseAbort(w) /\ UNCHANGED skipped
        \/ \E id \in Ids : ExecuteReturn(w, id)
        \/ SettleSuccess(w)
        \/ CheckAttempts(w)
        \/ SettleFailure(w)
        \/ SettleError(w)
        \/ Stop(w)
        \/ CleanRestore(w)
        \/ CleanFail(w)
        \/ CleanError(w)

SpecCancel == Init /\ [][NextCancel]_vars

\* ------------------------------------------------------- live deployment
\* The clock of the model stops at MaxTime, so a lease that loses its holder
\* can expire only if it is abandoned early enough.
Abandonable == now + StuckTimeout < MaxTime

\* The deployment of the progress claims: the store answers every statement,
\* process w1 stays up, the others may stop while the clock bound leaves room
\* for the abandoned lease to expire.
NextLive ==
    \/ Tick
    \/ \E id \in Ids : CancelTask(id) /\ UNCHANGED apiVars
    \/ \E w \in Workers :
        \/ LeaseSelect(w)
        \/ LeaseCommit(w)
        \/ \E id \in Ids : ExecuteReturn(w, id)
        \/ SettleSuccess(w)
        \/ CheckAttempts(w)
        \/ SettleFailure(w)
        \/ w # "w1" /\ Abandonable /\ Stop(w)
        \/ CleanRestore(w)
        \/ CleanFail(w)

\* The steps of the Worker goroutine of process w (its polling loop is
\* sequential: at most one kind of step is enabled at a time) and of its Cleaner.
WorkerStep(w) ==
    \/ LeaseSelect(w)
    \/ LeaseCommit(w)
    \/ \E id \in Ids : ExecuteReturn(w, id)
    \/ SettleSuccess(w)
    \/ CheckAttempts(w)
    \/ SettleFailure(w)

CleanerStep(w) == CleanRestore(w) \/ CleanFail(w)

\* Scheduling: time passes, and a running process keeps taking its steps: the
\* ticker loops of Worker.Start and Cleaner.Start, the goroutines of
\* executeTasks and the results loop behind wg.Wait().
Fairness ==
    /\ WF_vars(Tick)
    /\ \A w \in Workers : WF_vars(WorkerStep(w)) /\ WF_vars(CleanerStep(w))

SpecLive == Init /\ [][NextLive]_vars /\ Fairness

\* ----------------------------------------------------- undisturbed run
\* A run in which the store answers every statement, no process stops, no
\* cleaner runs and nobody cancels: polls, executions and settlements only.
NextRun ==
    \/ Tick
    \/ \E w \in Workers :
        \/ LeaseSelect(w)
        \/ LeaseCommit(w)
        \/ \E id \in Ids : ExecuteReturn(w, id)
        \/ SettleSuccess(w)
        \/ CheckAttempts(w)
        \/ SettleFailure(w)

SpecRun == Init /\ [][NextRun]_vars

\* ------------------------------------------------ unregistered task type
\* The task types Executor.Execute has a case for.
Registered == {"http_callback", "rabbitmq", "email"}

\* A table whose odd rows carry a task type without an executor.
InitUnregistered ==
    /\ InitWorkers
    /\ InitApi
    /\ tasks = [id \in 1..MaxTasks |->
                  IF id % 2 = 1 THEN [InitialRow(id) EXCEPT !.task_type = "sms"]
                                ELSE InitialRow(id)]
    /\ leases = [id \in 1..MaxTasks |-> 0]
    /\ claimed = [id \in 1..MaxTasks |-> 0]
    /\ restored = [id \in 1..MaxTasks |-> 0]

\* Every step of the worker processes and their cleaners; nobody cancels.
NextUncancelled ==
    \/ Tick
    \/ \E w \in Workers :
        \/ LeaseSelect(w)
        \/ LeaseCommit(w)
        \/ LeaseAbort(w) /\ UNCHANGED skipped
        \/ \E id \in Ids : ExecuteReturn(w, id)
        \/ SettleSuccess(w)
        \/ CheckAttempts(w)
        \/ SettleFailure(w)
        \/ SettleError(w)
        \/ Stop(w)
        \/ CleanRestore(w)
        \/ CleanFail(w)
        \/ CleanError(w)

SpecUnregistered == InitUnregistered /\ [][NextUncancelled]_vars

\* ---------------------------------------------------------- failing polls
\* Polls, executions and settlements of the workers while the store may
\* refuse the UPDATE or the commit of a lease transaction; the rows of a poll
\* that ended so are remembered in skipped.
NextPoll ==
    \/ Tick
    \/ \E w \in Workers :
        \/ LeaseSelect(w)
        \/ LeaseCommit(w)
        \/ LeaseAbort(w) /\ skipped' = [skipped EXCEPT ![w] = txRows[w]]
        \/ \E id \in Ids : ExecuteReturn(w, id)
        \/ SettleSuccess(w)
        \/ CheckAttempts(w)
        \/ SettleFailure(w)

SpecPoll == Init /\ [][NextPoll]_vars

TypeOK ==
    /\ now \in 0..MaxTime
    /\ \A id \in Ids : tasks[id].status \in Statuses
    /\ \A w \in Workers : txRows[w] \subseteq Ids /\ running[w] \subseteq Ids

\* ================================================================ claims
\* Steps of the cleaner, recognised by its position.
RestoreStep(w) == cpc[w] # "failQuery" /\ cpc'[w] = "failQuery"

FailStep(w) == cpc[w] = "failQuery" /\ cpc'[w] = "swept"

\* C1: no task ever has two executor dispatches in flight at the same
\* instant, whatever the interleaving of polls, executions, settlements,
\* sweeps and cancels.
C1_NoTwoDispatchesInFlight ==
    \A id \in Ids : Cardinality({w \in Workers : id \in running[w]}) <= 1

\* C2: the rows selected by concurrently open lease transactions are
\* disjoint, and a row selected by a lease is pending, never processing:
\* while a committed lease keeps a row in processing no lease selects it.
C2_NoDoubleClaim ==
    \A w \in Workers : \A id \in txRows[w] :
        /\ tasks[id].status = "pending"
        /\ \A v \in Workers \ {w} : id \notin txRows[v]

\* C2 witness: two lease transactions that began at different instants are
\* open at once, each holding a row the other could have selected.
C2_Witness ==
    \E w \in Workers, v \in Workers :
        /\ w # v /\ txRows[w] # {} /\ txRows[v] # {}
        /\ txStart[w] < txStart[v]
        /\ \A id \in txRows[w] : tasks[id].execute_at <= txStart[v]

\* C3: once a task is completed, failed or cancelled no later operation
\* changes its status.
C3_TerminalAbsorbing ==
    [][\A id \in Ids :
        tasks[id].status \in Terminal => tasks'[id].status = tasks[id].status]_vars

\* C4: every task in a terminal status has attempts <= max_attempts.
C4_TerminalWithinBudget ==
    \A id \in Ids :
        tasks[id].status \in Terminal => tasks[id].attempts <= tasks[id].max_attempts

\* C5: the number of committed leases (executor dispatches) of a task never
\* exceeds its max_attempts.
C5_DispatchesWithinBudget ==
    \A id \in Ids : leases[id] <= tasks[id].max_attempts

\* C6: the sweep's first statement returns an expired task with budget left
\* to pending and leaves its attempts as they were.
C6_RestoreKeepsAttempts ==
    [][\A w \in Workers : \A id \in Ids :
        (RestoreStep(w) /\ Restorable(id)) =>
            /\ tasks'[id].status = "pending"
            /\ tasks'[id].attempts = tasks[id].attempts]_vars

\* C7: completed_at is non-null exactly when the status is completed or failed.
C7_CompletedAtIffFinished ==
    \A id \in Ids :
        tasks[id].completed_at.Valid <=> tasks[id].status \in {"completed", "failed"}

\* C8: a lease selects a row only if it is pending with execute_at <= NOW()
\* of the lease transaction, and no task is in an executor before its execute_at.
C8_LeaseOnlyDue ==
    \A w \in Workers :
        /\ \A id \in txRows[w] :
            /\ tasks[id].status = "pending"
            /\ tasks[id].execute_at <= txStart[w]
            /\ txStart[w] <= now
        /\ \A id \in running[w] : tasks[id].execute_at <= now

\* C8 witness: a task with a later firing time is in an executor at the very
\* instant it became due, while it was not selectable before.
C8_Witness ==
    \E w \in Workers : \E id \in running[w] :
        tasks[id].execute_at > 0 /\ tasks[id].execute_at = now

\* C9: with a live worker and sweeper, every task that is pending, due and
\* within its budget eventually reaches a terminal status.
C9_Progress ==
    \A id \in 1..MaxTasks :
        (/\ tasks[id].status = "pending"
         /\ tasks[id].execute_at <= now
         /\ tasks[id].attempts < tasks[id].max_attempts)
            ~> (tasks[id].status \in Terminal)

\* C9 witness: a task was retried after a failure and then failed for good
\* with its budget used up.
C9_Witness ==
    \E id \in Ids :
        /\ tasks[id].status = "failed"
        /\ tasks[id].max_attempts = 2
        /\ leases[id] = 2
        /\ tasks[id].error_message = "HTTP request failed with status: 500, body: down"

C11_LeavesProcessing ==
    \A id \in 1..MaxTasks :
        (tasks[id].status = "processing") ~> (tasks[id].status # "processing")

\* C11 witness: a process is dead, and a row it had leased and never settled
\* was returned to pending by the sweep (which counted one more attempt than
\* there were leases).
C11_Witness ==
    /\ \E w \in Workers : ~alive[w]
    /\ \E id \in Ids :
        /\ tasks[id].status = "pending"
        /\ leases[id] = 1
        /\ tasks[id].attempts = 2
        /\ tasks[id].error_message = NullString

\* A step in which at-api answers a call.
Answered == <<request, response>>' # <<request, response>>

\* C12: cancel(id) sets the task to cancelled and returns it if and only if
\* the task exists and is pending or processing; for an absent id and for a
\* completed, failed or cancelled task it answers NotFound and leaves the
\* store as it was.
C12_CancelIffCancellable ==
    [][(Answered /\ request'[1] = "cancel") =>
        LET id == request'[2]
        IN  IF id \in Ids /\ tasks[id].status \in {"pending", "processing"}
            THEN /\ response'.code = 200
                 /\ response'.task = <<Returning(tasks', id)>>
                 /\ tasks'[id].status = "cancelled"
                 /\ \A other \in Ids \ {id} : tasks'[other] = tasks[other]
            ELSE /\ response'.code = 404
                 /\ response'.task = <<>>
                 /\ tasks' = tasks]_vars

\* C12 witness: a cancel of a task that a worker had completed or failed, and
\* that no cancel ever matched, was answered NotFound.
C12_Witness ==
    \E id \in Ids :
        /\ request = <<"cancel", id>>
        /\ response.code = 404
        /\ cancelHist[id] = <<>>
        /\ tasks[id].status \in {"completed", "failed"}

\* C13: once a cancel of a task has been answered with the cancelled task,
\* every later cancel of the same task is answered NotFound and changes
\* nothing, whatever settlement and sweep steps ran in between.
C13_SecondCancelNotFound ==
    [][( /\ Answered
         /\ request'[1] = "cancel"
         /\ request'[2] \in Ids
         /\ cancelHist[request'[2]] # <<>> )
        => /\ response'.code = 404
           /\ tasks' = tasks]_vars

\* C14: a task cancelled while pending stays cancelled with the attempts it
\* had at the cancel: no worker and no sweeper leases, executes or modifies it.
C14_CancelledPendingUntouched ==
    \A id \in Ids :
        (cancelHist[id] # <<>> /\ cancelHist[id][1] = "pending") =>
            /\ tasks[id].status = "cancelled"
            /\ tasks[id].attempts = cancelHist[id][2]

\* C15: a create whose execute_at is not after the current instant, the equal
\* instant included, is rejected with InvalidExecuteTime and inserts no row;
\* every inserted task has execute_at after the instant of its insertion.
C15_RejectsNotFuture ==
    [][(Answered /\ request'[1] = "create") =>
        LET req == request'[2]
        IN  /\ ( /\ req.execute_at # ZeroTime
                 /\ req.task_type # ""
                 /\ req.payload # ""
                 /\ req.execute_at <= now )
               => /\ response'.code = 400
                  /\ response'.error = "execute_at must be in the future"
                  /\ tasks' = tasks
            /\ Len(tasks') > Len(tasks) => tasks'[Len(tasks')].execute_at > now]_vars

\* C16: an inserted task is pending with attempts 0 and a null completed_at,
\* has an id no other task has, keeps the execute_at, task_type and payload of
\* the request, and has the requested max_attempts, or 3 when the request
\* gives 0 or omits it; the rows already stored stay as they were.
C16_InsertedRow ==
    [][(Answered /\ request'[1] = "create") =>
        LET req == request'[2]
        IN  /\ Len(tasks') > Len(tasks) <=> response'.code = 201
            /\ response'.code = 201 =>
                 LET id == Len(tasks')
                     row == tasks'[id]
                 IN  /\ id = Len(tasks) + 1
                     /\ \A other \in 1..Len(tasks) : tasks'[other] = tasks[other]
                     /\ response'.task = <<Returning(tasks', id)>>
                     /\ row.status = "pending"
                     /\ row.attempts = 0
                     /\ row.completed_at = NullTime
                     /\ row.execute_at = req.execute_at
                     /\ row.task_type = req.task_type
                     /\ row.payload = req.payload
                     /\ row.max_attempts =
                            IF req.max_attempts = 0 THEN 3 ELSE req.max_attempts]_vars

\* C16 witness: a create that gave no max_attempts was answered with a second
\* task, whose max_attempts is 3.
C16_Witness ==
    /\ request[1] = "create"
    /\ request[2].max_attempts = 0
    /\ response.code = 201
    /\ response.task[1].id = 2
    /\ response.task[1].max_attempts = 3
    /\ response.task[1].status = "pending"

\* C17: a create request without execute_at, with an execute_at in the past,
\* without task_type or without payload is answered with a 400-class error
\* and leaves the store as it was.
C17_InvalidRejected ==
    [][( /\ Answered
         /\ request'[1] = "create"
         /\ \/ request'[2].execute_at = ZeroTime
            \/ request'[2].execute_at < now
            \/ request'[2].task_type = ""
            \/ request'[2].payload = "" )
        => /\ response'.code \in 400..499
           /\ response'.task = <<>>
           /\ tasks' = tasks]_vars

\* C17 witness: a request with everything but the payload was answered 400
\* while a task was stored.
C17_Witness ==
    /\ request[1] = "create"
    /\ request[2].payload = ""
    /\ request[2].execute_at # ZeroTime
    /\ request[2].task_type # ""
    /\ response.code = 400
    /\ response.error = "payload is required"
    /\ Len(tasks) >= 1

\* The rows of the table a list call with the filters of p asks for.
Asked(p) ==
    {id \in 1..Len(tasks) :
        /\ p.status = "" \/ tasks[id].status = p.status
        /\ p.task_type = "" \/ tasks[id].task_type = p.task_type}

\* C18: list answers at most L rows, L being 50 for limit 0 and the smaller
\* of limit and 100 otherwise; every row matches the status and task_type
\* filters, the rows are the ones from position offset on of the matching rows
\* in descending created_at, and total is the number of all matching rows
\* (counted by the first statement), whatever limit and offset are.
C18_ListPage ==
    [][/\ (listing = <<>> /\ listing' # <<>>) =>
            LET params == request'[2]
            IN  /\ request'[1] = "list"
                /\ listing'[1].total = Cardinality(Asked(params))
                /\ listing'[1].params.limit =
                       (IF params.limit = 0 THEN 50
                        ELSE IF params.limit < 100 THEN params.limit ELSE 100)
                /\ listing'[1].params.offset = params.offset
                /\ listing'[1].params.status = params.status
                /\ listing'[1].params.task_type = params.task_type
       /\ (listing # <<>> /\ listing' = <<>>) =>
            LET p    == listing[1].params
                rows == response'.tasks
                R    == {rows[i].id : i \in 1..Len(rows)}
                M    == Asked(p)
                rest == IF Cardinality(M) > p.offset
                        THEN Cardinality(M) - p.offset ELSE 0
            IN  /\ response'.code = 200
                /\ response'.total = listing[1].total
                /\ Len(rows) <= p.limit
                /\ Len(rows) = (IF rest < p.limit THEN rest ELSE p.limit)
                /\ R \subseteq M
                /\ Cardinality(R) = Len(rows)
                /\ \A i \in 1..Len(rows) : rows[i] = Returning(tasks, rows[i].id)
                /\ \A i, j \in 1..Len(rows) :
                      i < j => rows[i].created_at >= rows[j].created_at
                /\ Len(rows) > 0 =>
                      \E B \in SUBSET (M \ R) :
                          /\ Cardinality(B) = p.offset
                          /\ \A b \in B :
                                tasks[b].created_at >= rows[1].created_at
                          /\ \A a \in (M \ R) \ B :
                                tasks[a].created_at <= rows[Len(rows)].created_at]_vars

\* C18 witness: with two sms tasks created at different instants, a list with
\* task_type sms, limit 1 and offset 1 was answered with the older task alone
\* and total 2.
C18_Witness ==
    /\ request[1] = "list"
    /\ request[2].task_type = "sms"
    /\ request[2].limit = 1
    /\ request[2].offset = 1
    /\ response.code = 200
    /\ response.total = 2
    /\ Len(response.tasks) = 1
    /\ response.tasks[1].id = 1
    /\ Len(tasks) = 2
    /\ tasks[1].created_at < tasks[2].created_at

\* A step in which the UPDATE of handleTaskResult for the result at the head
\* of w's channel writes the table (a statement the store refuses writes
\* nothing and the result is dropped).
Settles(w) ==
    /\ Handling(w)
    /\ alive'[w]
    /\ resultsChan'[w] = Tail(resultsChan[w])
    /\ tasks' # tasks

\* C19: a task that a worker's settlement (not the sweeper's statement for
\* exhausted leases) leaves failed has attempts equal to max_attempts.
C19_FailedBySettlementAtBudget ==
    [][\A w \in Workers :
        (Settles(w) /\ ~Head(resultsChan[w]).Success) =>
            LET id == Head(resultsChan[w]).TaskID
            IN  tasks'[id].status = "failed" =>
                    tasks'[id].attempts = tasks'[id].max_attempts]_vars

\* C20: the settlement of a successful execution sets status = completed,
\* completed_at = now and error_message = the text the executor returned, and
\* leaves attempts, max_attempts, execute_at, task_type, payload and created_at
\* of the task, and every other task, as they were.
C20_SuccessSettlement ==
    [][\A w \in Workers :
        (Settles(w) /\ Head(resultsChan[w]).Success) =>
            LET r  == Head(resultsChan[w])
                id == r.TaskID
            IN  /\ tasks'[id].status = "completed"
                /\ tasks'[id].completed_at = TimeOf(now)
                /\ tasks'[id].error_message = r.ErrorMessage
                /\ tasks'[id].attempts = tasks[id].attempts
                /\ tasks'[id].max_attempts = tasks[id].max_attempts
                /\ tasks'[id].execute_at = tasks[id].execute_at
                /\ tasks'[id].task_type = tasks[id].task_type
                /\ tasks'[id].payload = tasks[id].payload
                /\ tasks'[id].created_at = tasks[id].created_at
                /\ \A other \in Ids \ {id} : tasks'[other] = tasks[other]]_vars

\* C20 witness: a task leased once was settled as completed with the text of
\* the executor, and nothing is left to settle.
C20_Witness ==
    \E id \in Ids :
        /\ tasks[id].status = "completed"
        /\ tasks[id].error_message = "OK"
        /\ tasks[id].attempts = 1
        /\ tasks[id].completed_at = TimeOf(tasks[id].updated_at)
        /\ leases[id] = 1
        /\ \A w \in Workers : resultsChan[w] = <<>> /\ running[w] = {}

\* A step in which handleTaskResult of w reads attempts and max_attempts of the
\* task whose failure it handles.
Checks(w) == Handling(w) /\ checked[w] = <<>> /\ checked'[w] # <<>>

\* C21: the settlement of a failed execution reads the stored attempts and
\* max_attempts of the task and writes accordingly: with attempts <
\* max_attempts, status = pending and the diagnostic, completed_at not
\* written; with attempts >= max_attempts, status = failed, the diagnostic and
\* completed_at = now.
C21_FailureSettlement ==
    [][\A w \in Workers :
        /\ Checks(w) =>
              LET id == Head(resultsChan[w]).TaskID
              IN  checked'[w] = <<tasks[id].attempts, tasks[id].max_attempts>>
        /\ (Settles(w) /\ ~Head(resultsChan[w]).Success) =>
              LET r  == Head(resultsChan[w])
                  id == r.TaskID
              IN  /\ tasks'[id].error_message = r.ErrorMessage
                  /\ IF checked[w][1] < checked[w][2]
                     THEN /\ tasks'[id].status = "pending"
                          /\ tasks'[id].completed_at = tasks[id].completed_at
                     ELSE /\ tasks'[id].status = "failed"
                          /\ tasks'[id].completed_at = TimeOf(now)]_vars

\* C21 witness: a task with max_attempts 2 is pending again after its first
\* execution failed, with the diagnostic and no completed_at, while a task
\* with max_attempts 1 is failed after its only execution failed.
C21_Witness ==
    \E id \in Ids, other \in Ids :
        /\ tasks[id].status = "pending"
        /\ tasks[id].attempts = 1
        /\ tasks[id].max_attempts = 2
        /\ tasks[id].error_message = "HTTP request failed with status: 500, body: down"
        /\ tasks[id].completed_at = NullTime
        /\ leases[id] = 1
        /\ tasks[other].status = "failed"
        /\ tasks[other].attempts = 1
        /\ tasks[other].max_attempts = 1
        /\ tasks[other].error_message = "HTTP request failed with status: 500, body: down"
        /\ tasks[other].completed_at = TimeOf(tasks[other].updated_at)
        /\ leases[other] = 1

\* A step in which the lease transaction of w commits.
Commits(w) == txRows[w] # {} /\ running'[w] = txRows[w]

\* C22: a committed lease adds exactly 1 to the attempts of each task it
\* leases and sets it to processing; no settlement by a worker changes
\* attempts, and the attempts a settlement leaves behind are the attempts the
\* lease of the task set.
C22_AttemptsSetByLease ==
    [][\A w \in Workers :
        /\ Commits(w) =>
              \A id \in txRows[w] :
                  /\ tasks'[id].attempts = tasks[id].attempts + 1
                  /\ tasks'[id].status = "processing"
        /\ Settles(w) =>
              LET id == Head(resultsChan[w]).TaskID
              IN  /\ tasks'[id].attempts = tasks[id].attempts
                  /\ tasks'[id].attempts = claimed[id]]_vars

\* C23: a settlement that returns a failed task to pending leaves its
\* execute_at as it was, so the task is due at once: the lease query of any
\* worker selects it from the next statement on, with no delay in between.
C23_RetryDueAtOnce ==
    [][\A w \in Workers :
        (Settles(w) /\ ~Head(resultsChan[w]).Success /\ checked[w][1] < checked[w][2]) =>
            LET id == Head(resultsChan[w]).TaskID
            IN  /\ tasks'[id].execute_at = tasks[id].execute_at
                /\ tasks'[id].status = "pending"
                /\ tasks'[id].execute_at <= now'
                /\ \A v \in Workers : id \notin txRows'[v]]_vars

\* C23 witness: a task returned to pending by a failure settlement is selected
\* by a lease transaction that began at the instant of the settlement.
C23_Witness ==
    \E w \in Workers, id \in Ids :
        /\ id \in txRows[w]
        /\ tasks[id].status = "pending"
        /\ tasks[id].error_message = "HTTP request failed with status: 500, body: down"
        /\ tasks[id].attempts = 1
        /\ leases[id] = 1
        /\ txStart[w] = tasks[id].updated_at

\* C24: the sweep's second statement sets every task whose lease has expired
\* (processing, updated_at older than the stuck timeout) and whose attempts
\* have reached max_attempts to failed with error_message "Max attempts
\* reached" and completed_at = now; the first statement leaves such a task as
\* it is, so no statement of a sweep returns it to pending.
C24_ExhaustedFailed ==
    [][\A w \in Workers : \A id \in Ids :
        (Expired(id) /\ tasks[id].attempts >= tasks[id].max_attempts) =>
            /\ RestoreStep(w) => tasks'[id] = tasks[id]
            /\ FailStep(w) =>
                  /\ tasks'[id].status = "failed"
                  /\ tasks'[id].error_message = "Max attempts reached"
                  /\ tasks'[id].completed_at = TimeOf(now)
                  /\ tasks'[id].attempts = tasks[id].attempts]_vars

\* C24 witness: a sweep has failed a task that was leased max_attempts times
\* and never swept before.
C24_Witness ==
    \E id \in Ids :
        /\ tasks[id].status = "failed"
        /\ tasks[id].error_message = "Max attempts reached"
        /\ tasks[id].completed_at = TimeOf(now)
        /\ tasks[id].attempts = tasks[id].max_attempts
        /\ leases[id] = tasks[id].max_attempts
        /\ \E w \in Workers : cpc[w] = "swept"

Selects(w) == txRows[w] = {} /\ txRows'[w] # {}

\* C26: a poll takes the due pending tasks with the smallest execute_at first:
\* when its query selects a task x and leaves out a task y that is pending,
\* due and not locked by another transaction at that moment, execute_at of x
\* is not after execute_at of y; the rows it leases are the rows it selected.
C26_EarliestFirst ==
    [][\A w \in Workers :
        /\ Selects(w) =>
              \A x \in txRows'[w] : \A y \in Ids \ txRows'[w] :
                  ( /\ tasks[y].status = "pending"
                    /\ tasks[y].execute_at <= now
                    /\ \A v \in Workers : y \notin txRows[v] )
                  => tasks[x].execute_at <= tasks[y].execute_at
        /\ Commits(w) =>
              \A id \in Ids :
                  tasks'[id].status # tasks[id].status <=> id \in txRows[w]]_vars

\* C26 witness: the poll of the worker with batch size 1 holds the task due
\* first while the task due later is pending, due and unlocked.
C26_Witness ==
    \E w \in Workers, x \in Ids, y \in Ids :
        /\ batchSize[w] = 1
        /\ txRows[w] = {x}
        /\ tasks[x].execute_at < tasks[y].execute_at
        /\ tasks[y].status = "pending"
        /\ leases[y] = 0
        /\ tasks[y].execute_at <= txStart[w]
        /\ \A v \in Workers : y \notin txRows[v]

\* C27: a poll leases at most batchSize tasks, and a worker starts a poll only
\* when every execution of its previous batch has returned and every result
\* has been handled; so a worker never has more than batchSize tasks in
\* execution at once.
C27_BatchBound ==
    \A w \in Workers :
        /\ Cardinality(txRows[w]) <= batchSize[w]
        /\ Cardinality(running[w]) <= batchSize[w]
        /\ Cardinality(running[w]) + Len(resultsChan[w]) <= batchSize[w]
        /\ txRows[w] # {} => running[w] = {} /\ resultsChan[w] = <<>>

\* C27 witness: the worker with batch size 1 is executing one task while
\* another task, never leased, is pending and was due when the batch started.
C27_Witness ==
    \E w \in Workers, x \in Ids, y \in Ids :
        /\ batchSize[w] = 1
        /\ running[w] = {x}
        /\ tasks[y].status = "pending"
        /\ leases[y] = 0
        /\ tasks[y].execute_at <= tasks[x].updated_at
        /\ tasks[x].status = "processing"

C29_UnregisteredFails ==
    \A id \in Ids :
        tasks[id].task_type \notin Registered =>
            /\ \A w \in Workers : \A i \in 1..Len(resultsChan[w]) :
                  resultsChan[w][i].TaskID = id =>
                      /\ ~resultsChan[w][i].Success
                      /\ resultsChan[w][i].ErrorMessage =
                             "unknown task type: " \o tasks[id].task_type
            /\ tasks[id].status # "completed"
            /\ tasks[id].status = "failed" =>
                  tasks[id].attempts = tasks[id].max_attempts

\* C30: a poll that a store error ends before its lease transaction has
\* committed changes no task: every task it had selected keeps status pending
\* and its attempts, and the poll executes none of them.
C30_FailedPollChangesNothing ==
    [][\A w \in Workers :
        (skipped'[w] # {} /\ skipped[w] = {}) =>
            /\ skipped'[w] = txRows[w]
            /\ tasks' = tasks
            /\ \A id \in skipped'[w] :
                  /\ tasks'[id].status = "pending"
                  /\ tasks'[id].attempts = tasks[id].attempts
                  /\ \A v \in Workers : id \notin txRows'[v]
            /\ running'[w] = {}
            /\ resultsChan'[w] = <<>>
            /\ leases' = leases]_vars

\* C30 witness: the last poll of a worker ended on a store error; the task it
\* had selected for a retry is pending with the attempts of its one lease, and
\* the worker is executing nothing.
C30_Witness ==
    \E w \in Workers, id \in Ids :
        /\ id \in skipped[w]
        /\ tasks[id].status = "pending"
        /\ tasks[id].attempts = 1
        /\ leases[id] = 1
        /\ running[w] = {}
        /\ resultsChan[w] = <<>>

\* A processing task no running worker holds: no goroutine is executing it and
\* no result of it waits to be handled.
Orphan(id) ==
    /\ tasks[id].status = "processing"
    /\ \A w \in Workers :
          /\ id \notin running[w]
          /\ \A i \in 1..Len(resultsChan[w]) : resultsChan[w][i].TaskID # id

C32_UpdatedAtIsWriteInstant ==
    [][\A id \in Ids :
        (tasks'[id] # tasks[id]) =>
            /\ tasks'[id].updated_at >= tasks[id].updated_at
            /\ tasks'[id].updated_at = now]_vars

\* C33: every change of status is pending -> processing, processing ->
\* completed, processing -> pending, processing -> failed, pending -> cancelled
\* or processing -> cancelled; a worker's settlement and a sweep change only
\* a task whose status is processing at the moment of the write.
C33_StatusTransitions ==
    [][\A id \in Ids :
        /\ tasks'[id].status # tasks[id].status =>
              <<tasks[id].status, tasks'[id].status>> \in
                  { <<"pending", "processing">>, <<"processing", "completed">>,
                    <<"processing", "pending">>, <<"processing", "failed">>,
                    <<"pending", "cancelled">>, <<"processing", "cancelled">> }
        /\ (tasks'[id] # tasks[id] /\ \E w \in Workers :
                                        Settles(w) \/ RestoreStep(w) \/ FailStep(w))
              => tasks[id].status = "processing"]_vars

\* C34: the status a failure settlement writes agrees with attempts and
\* max_attempts of the task at the moment of the write, even when a sweep or
\* another lease changed attempts after the settlement read them: it writes
\* pending only with attempts < max_attempts and failed only with attempts >=
\* max_attempts.
C34_FailureAgreesAtWrite ==
    [][\A w \in Workers :
        (Settles(w) /\ ~Head(resultsChan[w]).Success) =>
            LET id == Head(resultsChan[w]).TaskID
            IN  /\ tasks'[id].status = "pending" =>
                      tasks[id].attempts < tasks[id].max_attempts
                /\ tasks'[id].status = "failed" =>
                      tasks[id].attempts >= tasks[id].max_attempts]_vars

\* C35: every task in status failed has attempts >= max_attempts, whether a
\* worker's settlement or the sweeper failed it.
C35_FailedHasSpentBudget ==
    \A id \in Ids :
        tasks[id].status = "failed" => tasks[id].attempts >= tasks[id].max_attempts

\* C35 witness: one task failed by a settlement and one failed by the sweeper
\* stand in the table at once.
C35_Witness ==
    \E id, other \in Ids :
        /\ tasks[id].status = "failed"
        /\ tasks[id].error_message # "Max attempts reached"
        /\ tasks[other].status = "failed"
        /\ tasks[other].error_message = "Max attempts reached"

\* C36: after its creation no operation (lease, settlement, sweep, cancel)
\* changes execute_at, task_type, payload, max_attempts or created_at of a
\* task, and its attempts never decrease.
C36_FrameAndMonotoneAttempts ==
    [][\A id \in Ids :
        /\ tasks'[id].execute_at = tasks[id].execute_at
        /\ tasks'[id].task_type = tasks[id].task_type
        /\ tasks'[id].payload = tasks[id].payload
        /\ tasks'[id].max_attempts = tasks[id].max_attempts
        /\ tasks'[id].created_at = tasks[id].created_at
        /\ tasks'[id].attempts >= tasks[id].attempts]_vars

\* C36 witness: a task that was leased, swept and settled, and another that
\* was cancelled, still carry the fields they were created with.
C36_Witness ==
    \E id, other \in Ids :
        /\ tasks[id].status = "completed"
        /\ leases[id] = 1
        /\ tasks[id].attempts = 2
        /\ tasks[other].status = "cancelled"
        /\ \A i \in {id, other} :
              /\ tasks[i].execute_at = (IF i % 2 = 1 THEN 0 ELSE 1)
              /\ tasks[i].task_type = "http_callback"
              /\ tasks[i].payload = "p1"
              /\ tasks[i].max_attempts = (IF i % 2 = 1 THEN 2 ELSE 1)
              /\ tasks[i].created_at = 0

\* The results waiting in a results channel.
Results(chan) == {chan[i] : i \in 1..Len(chan)}

\* C37: a task is completed only if an executor dispatch of that task returned
\* success earlier: a row becomes completed only in the settlement of a
\* success result of that task, and a success result enters a channel only
\* when a running dispatch of that task returns success from Execute.
C37_CompletedOnlyAfterSuccess ==
    [][/\ \A id \in Ids :
            (tasks'[id].status = "completed" /\ tasks[id].status # "completed") =>
                \E w \in Workers :
                    /\ Settles(w)
                    /\ Head(resultsChan[w]).Success
                    /\ Head(resultsChan[w]).TaskID = id
       /\ \A w \in Workers : \A r \in Results(resultsChan'[w]) :
            (r.Success /\ r \notin Results(resultsChan[w])) =>
                /\ r.TaskID \in running[w]
                /\ r.TaskID \notin running'[w]
                /\ <<TRUE, r.ErrorMessage>> \in Execute(tasks[r.TaskID].task_type)]_vars

\* C37 witness: a task stands completed with the body its callback answered,
\* after one lease.
C37_Witness ==
    \E id \in Ids :
        /\ tasks[id].status = "completed"
        /\ tasks[id].error_message = "OK"
        /\ tasks[id].completed_at.Valid
        /\ leases[id] = 1

C39_SettleAfterBatchReturned ==
    [][\A w \in Workers :
        (/\ alive'[w]
         /\ resultsChan[w] # <<>>
         /\ \/ resultsChan'[w] = Tail(resultsChan[w])
            \/ (checked'[w] # checked[w] /\ checked'[w] # <<>>))
        => running[w] = {}]_vars

\* C39 witness: both executors of a batch of two have returned, and
\* handleTaskResult has read the attempts for the first result while the second
\* waits in the channel.
C39_Witness ==
    \E w \in Workers :
        /\ alive[w]
        /\ running[w] = {}
        /\ Len(resultsChan[w]) = 2
        /\ resultsChan[w][1].TaskID # resultsChan[w][2].TaskID
        /\ checked[w] # <<>>
        /\ tasks[resultsChan[w][1].TaskID].status = "processing"
        /\ tasks[resultsChan[w][2].TaskID].status = "processing"

\* C40: every task stored by create has max_attempts >= 1, whatever value the
\* request carried: absent, zero, positive or negative.
C40_StoredMaxAttemptsPositive ==
    \A id \in Ids : tasks[id].max_attempts >= 1

====
